---------------------------- MODULE Spec2Model ----------------------------
(***************************************************************************)
(* A model of the Retro transcriber backend:                               *)
(*   routes/transcription.py  transcribe_audio, detect_up_sots             *)
(*   routes/export.py         export_edl, export_txt, export_pdf,          *)
(*                            generate_edl, generate_txt, generate_markdown*)
(* Python str values are TLA+ strings; a character is a string of length 1.*)
(***************************************************************************)
EXTENDS Integers, Sequences, FiniteSets, TLC

VARIABLES
    \* detect_up_sots: its argument, its locals and its return value
    text, sentences, up_sots, unique_up_sots, detected, dpc,
    \* two renderings (generate_edl, generate_txt or generate_markdown), per
    \* rendering: the up_sots argument, which renderer ran, its list of lines
    \* and the string it returned
    r_up_sots, r_fmt, r_lines, r_content,
    \* the requests being served, per request: what was sent, the position of its
    \* handler, the handler's locals and its response
    req, pc, content, temp_file_path, pdf_file_path, result, response, log,
    \* the temporary directory: the data of every file, and which request's
    \* handler (or converter run) wrote it
    fs, written_by

detVars == <<text, sentences, up_sots, unique_up_sots, detected, dpc>>
renVars == <<r_up_sots, r_fmt, r_lines, r_content>>
reqVars == <<req, pc, content, temp_file_path, pdf_file_path, result, response, log>>
fsVars == <<fs, written_by>>
srvVars == <<reqVars, fsVars>>
vars == <<detVars, renVars, srvVars>>

(***************************************************************************)
(* Python str helpers                                                      *)
(***************************************************************************)
Char(s, k) == SubSeq(s, k, k)

UPPERCASE == "ABCDEFGHIJKLMNOPQRSTUVWXYZ"
LOWERCASE == "abcdefghijklmnopqrstuvwxyz"
WHITESPACE == {" ", "\n", "\t", "\r"}

LETTERS == 1..Len(UPPERCASE)

to_lower == [ c \in { Char(UPPERCASE, k) : k \in LETTERS } |->
                Char(LOWERCASE, CHOOSE k \in LETTERS : Char(UPPERCASE, k) = c) ]

to_upper == [ c \in { Char(LOWERCASE, k) : k \in LETTERS } |->
                Char(UPPERCASE, CHOOSE k \in LETTERS : Char(LOWERCASE, k) = c) ]

\* str.lower() on one ASCII character
lower_char(c) == IF c \in DOMAIN to_lower THEN to_lower[c] ELSE c

\* str.upper() on one ASCII character
upper_char(c) == IF c \in DOMAIN to_upper THEN to_upper[c] ELSE c

\* str.lower() and str.upper(), character by character (the string is halved
\* at each step, which keeps the evaluation shallow)
RECURSIVE lower(_)
lower(s) ==
    IF Len(s) = 0 THEN ""
    ELSE IF Len(s) = 1 THEN lower_char(s)
    ELSE LET h == Len(s) \div 2
         IN  lower(SubSeq(s, 1, h)) \o lower(SubSeq(s, h + 1, Len(s)))

RECURSIVE upper(_)
upper(s) ==
    IF Len(s) = 0 THEN ""
    ELSE IF Len(s) = 1 THEN upper_char(s)
    ELSE LET h == Len(s) \div 2
         IN  upper(SubSeq(s, 1, h)) \o upper(SubSeq(s, h + 1, Len(s)))

SetMin(S) == CHOOSE x \in S : \A y \in S : x <= y
SetMax(S) == CHOOSE x \in S : \A y \in S : y <= x

\* str.strip(): what lies between the first and the last non-whitespace character
strip(s) ==
    LET solid == { k \in 1..Len(s) : Char(s, k) \notin WHITESPACE }
    IN  IF solid = {} THEN "" ELSE SubSeq(s, SetMin(solid), SetMax(solid))

\* sub in s
contains(sub, s) ==
    \E k \in 1..(Len(s) - Len(sub) + 1) : SubSeq(s, k, k + Len(sub) - 1) = sub

\* s.startswith(prefix)
startswith(s, prefix) ==
    Len(prefix) <= Len(s) /\ SubSeq(s, 1, Len(prefix)) = prefix

(***************************************************************************)
(* detect_up_sots                                                          *)
(***************************************************************************)
TERMINATORS == {".", "!", "?"}

\* re.split(r'[.!?]+', text): the pieces between maximal runs of terminators,
\* with an empty piece before a leading run and after a trailing one.
run_starts(s) ==
    { k \in 1..Len(s) :
        Char(s, k) \in TERMINATORS /\ (k = 1 \/ Char(s, k - 1) \notin TERMINATORS) }

run_ends(s) ==
    { k \in 1..Len(s) :
        Char(s, k) \in TERMINATORS /\ (k = Len(s) \/ Char(s, k + 1) \notin TERMINATORS) }

\* the j-th smallest element of S
nth(S, j) == CHOOSE x \in S : Cardinality({ y \in S : y < x }) = j - 1

re_split(s) ==
    LET starts == run_starts(s)
        ends == run_ends(s)
        n == Cardinality(starts)
    IN  [ j \in 1..(n + 1) |->
            SubSeq(s,
                   IF j = 1 THEN 1 ELSE nth(ends, j - 1) + 1,
                   IF j = n + 1 THEN Len(s) ELSE nth(starts, j) - 1) ]

key_phrases ==
    << "thank you", "welcome", "fascinating", "absolutely", "unique",
       "challenge", "opportunity", "important", "key", "significant",
       "advice", "perspective", "innovative", "breakthrough", "solution",
       "problem", "ethics", "future", "looking ahead", "in conclusion" >>

question_indicators ==
    << "can you tell us", "can you walk us through", "what do you see",
       "how does", "what advice", "what makes", "how do you" >>

topic_starters == << "speaking of", "looking ahead", "moving on", "now", "finally" >>

MinSentenceLen == 10
MinKeyMomentLen == 30
MaxDescriptionLen == 100
SecondsPerSentence == 3

\* confidence values 0.8, 0.7 and 0.9, in thousandths
QuestionConfidence == 800
KeyMomentConfidence == 700
TopicConfidence == 900

\* f'{label}{sentence[:100]}...' if len(sentence) > 100 else f'{label}{sentence}'
describe(label, sentence) ==
    IF Len(sentence) > MaxDescriptionLen
    THEN label \o SubSeq(sentence, 1, MaxDescriptionLen) \o "..."
    ELSE label \o sentence

is_question(sentence) ==
    \E n \in 1..Len(question_indicators) : contains(question_indicators[n], sentence)

is_key_moment(sentence) ==
    \E n \in 1..Len(key_phrases) :
        contains(key_phrases[n], sentence) /\ Len(sentence) > MinKeyMomentLen

is_topic_transition(sentence) ==
    \E n \in 1..Len(topic_starters) : startswith(sentence, topic_starters[n])

UpSot(ts, ty, desc, conf) ==
    [timestamp |-> ts, type |-> ty, description |-> desc, confidence |-> conf]

\* The three detection loops of one iteration: each appends at most one up-sot
\* (it breaks at its first hit), and a hit in one loop does not skip the others.
detect_questions(sentence, timestamp) ==
    IF is_question(sentence)
    THEN << UpSot(timestamp, "question", describe("Question: ", sentence),
                  QuestionConfidence) >>
    ELSE << >>

\* mutant: the length condition of the key-phrase rule forgotten
detect_key_phrases_any_length(sentence, timestamp) ==
    IF \E n \in 1..Len(key_phrases) : contains(key_phrases[n], sentence)
    THEN << UpSot(timestamp, "key_moment", describe("Key point: ", sentence),
                  KeyMomentConfidence) >>
    ELSE << >>

detect_key_phrases(sentence, timestamp) ==
    IF is_key_moment(sentence)
    THEN << UpSot(timestamp, "key_moment", describe("Key point: ", sentence),
                  KeyMomentConfidence) >>
    ELSE << >>

detect_topic_transitions(sentence, timestamp) ==
    IF is_topic_transition(sentence)
    THEN << UpSot(timestamp, "topic_transition", describe("Topic change: ", sentence),
                  TopicConfidence) >>
    ELSE << >>

normalise(raw) == lower(strip(raw))

\* The body of `for i, sentence in enumerate(sentences)`; i counts from 0.
scan_sentence(i, raw) ==
    LET sentence == normalise(raw)
        timestamp == i * SecondsPerSentence
    IN  IF Len(sentence) < MinSentenceLen
        THEN << >>
        ELSE detect_questions(sentence, timestamp)
             \o detect_key_phrases(sentence, timestamp)
             \o detect_topic_transitions(sentence, timestamp)

\* mutant: the index counts only the units that were not discarded
RECURSIVE scan_from_renumbered(_, _)
scan_from_renumbered(ss, n) ==
    IF n > Len(ss) THEN << >>
    ELSE scan_sentence(
             Cardinality({ m \in 1..(n - 1) : Len(normalise(ss[m])) >= MinSentenceLen }),
             ss[n])
         \o scan_from_renumbered(ss, n + 1)

RECURSIVE scan_from(_, _)
scan_from(ss, n) ==
    IF n > Len(ss) THEN << >>
    ELSE scan_sentence(n - 1, ss[n]) \o scan_from(ss, n + 1)

scan(ss) == scan_from(ss, 1)

\* The seen_timestamps loop: keep the first up-sot of every timestamp.
RECURSIVE dedup_from(_, _, _, _)
dedup_from(us, n, seen, acc) ==
    IF n > Len(us) THEN acc
    ELSE IF us[n].timestamp \notin seen
         THEN dedup_from(us, n + 1, seen \cup {us[n].timestamp}, Append(acc, us[n]))
         ELSE dedup_from(us, n + 1, seen, acc)

\* mutant: no deduplication
dedup_none(us) == us

\* mutant: the last up-sot of every timestamp is kept instead of the first
dedup_keep_last(us) ==
    LET last == { n \in 1..Len(us) :
                    \A m \in (n + 1)..Len(us) : us[m].timestamp /= us[n].timestamp }
    IN  [ j \in 1..Cardinality(last) |-> us[nth(last, j)] ]

dedup(us) == dedup_from(us, 1, {}, <<>>)

\* sorted(..., key=timestamp): a stable sort
RECURSIVE insert_by_timestamp(_, _)
insert_by_timestamp(x, s) ==
    IF Len(s) = 0 THEN << x >>
    ELSE IF s[Len(s)].timestamp <= x.timestamp
         THEN Append(s, x)
         ELSE Append(insert_by_timestamp(x, SubSeq(s, 1, Len(s) - 1)), s[Len(s)])

RECURSIVE sort_from(_, _, _)
sort_from(us, n, acc) ==
    IF n > Len(us) THEN acc
    ELSE sort_from(us, n + 1, insert_by_timestamp(us[n], acc))

sorted_by_timestamp(us) == sort_from(us, 1, <<>>)

detect_up_sots(t) == sorted_by_timestamp(dedup(scan(re_split(t))))

(***************************************************************************)
(* Transcripts given to detect_up_sots: up to MaxUnits units, each a piece *)
(* of text followed by a run of terminators, and an optional tail.         *)
(***************************************************************************)
MaxUnits == 2

Pieces ==
    { "",
      "OK",
      " How does",
      " How does it work",
      "now what makes it unique in the future",
      "The key is",
      "Ethics is at the core of everything",
      "Finally we are done",
      "nothing to see here " }

Runs == { ".", "?!" }

RECURSIVE TextsOf(_)
TextsOf(n) ==
    IF n = 0 THEN { "" }
    ELSE { p \o r \o t : p \in Pieces, r \in Runs, t \in TextsOf(n - 1) }

Transcripts == UNION { TextsOf(n) : n \in 1..MaxUnits }

SrvIdle ==
    /\ req = << >> /\ pc = << >> /\ content = << >> /\ temp_file_path = << >>
    /\ pdf_file_path = << >> /\ result = << >> /\ response = << >> /\ log = << >>
    /\ fs = << >> /\ written_by = << >>

RenIdle ==
    r_up_sots = << >> /\ r_fmt = << >> /\ r_lines = << >> /\ r_content = << >>

DetInit ==
    /\ text \in Transcripts
    /\ sentences = << >>
    /\ up_sots = << >>
    /\ unique_up_sots = << >>
    /\ detected = << >>
    /\ dpc = "split"
    /\ RenIdle
    /\ SrvIdle

Split ==
    /\ dpc = "split"
    /\ sentences' = re_split(text)
    /\ dpc' = "scan"
    /\ UNCHANGED <<text, up_sots, unique_up_sots, detected, renVars, srvVars>>

Scan ==
    /\ dpc = "scan"
    /\ up_sots' = scan(sentences)
    /\ dpc' = "dedup"
    /\ UNCHANGED <<text, sentences, unique_up_sots, detected, renVars, srvVars>>

Dedup ==
    /\ dpc = "dedup"
    /\ unique_up_sots' = dedup(up_sots)
    /\ dpc' = "sort"
    /\ UNCHANGED <<text, sentences, up_sots, detected, renVars, srvVars>>

Return ==
    /\ dpc = "sort"
    /\ detected' = sorted_by_timestamp(unique_up_sots)
    /\ dpc' = "done"
    /\ UNCHANGED <<text, sentences, up_sots, unique_up_sots, renVars, srvVars>>

DetNext == Split \/ Scan \/ Dedup \/ Return

SpecDetect == DetInit /\ [][DetNext]_vars

(***************************************************************************)
(* Rendering: generate_edl, generate_txt, generate_markdown                *)
(*                                                                         *)
(* An up-sot of a request is a JSON object: a function whose domain is the *)
(* set of keys present.  A timestamp is a JSON number n/d, written <<n, d>>*)
(* with d a power of two, for which the float arithmetic of the code is    *)
(* exact.  A confidence is in thousandths; the values used are ones for    *)
(* which the float product confidence * 100 truncates as the exact one.    *)
(***************************************************************************)
DIGITS == "0123456789"

\* dict.get(key, default)
get(u, key, default) == IF key \in DOMAIN u THEN u[key] ELSE default

\* str(n) for an integer n >= 0
RECURSIVE digits(_)
digits(n) ==
    IF n < 10 THEN Char(DIGITS, n + 1)
    ELSE digits(n \div 10) \o Char(DIGITS, (n % 10) + 1)

RECURSIVE repeat(_, _)
repeat(c, n) ==
    IF n <= 0 THEN ""
    ELSE IF n = 1 THEN c
    ELSE repeat(c, n \div 2) \o repeat(c, n - (n \div 2))

\* mutant: the number is not padded
format_unpadded(n, width, fill) == digits(n)

\* f"{n:02d}", f"{n:03d}" (fill "0") and f"{n:2d}" (fill " "): a minimum width
format_int(n, width, fill) == repeat(fill, width - Len(digits(n))) \o digits(n)

\* "\n".join(lines)
RECURSIVE join_range(_, _, _)
join_range(lines, lo, hi) ==
    IF lo > hi THEN ""
    ELSE IF lo = hi THEN lines[lo]
    ELSE LET mid == (lo + hi) \div 2
         IN  join_range(lines, lo, mid) \o "\n" \o join_range(lines, mid + 1, hi)

join(lines) == join_range(lines, 1, Len(lines))

ZERO == <<0, 1>>
FramesPerSecond == 30

\* a.get('timestamp', 0) <= b.get('timestamp', 0)
key_le(a, b) ==
    LET x == get(a, "timestamp", ZERO)
        y == get(b, "timestamp", ZERO)
    IN  x[1] * y[2] <= y[1] * x[2]

\* sorted(up_sots, key=lambda x: x.get('timestamp', 0)): a stable sort
RECURSIVE insert_by_key(_, _)
insert_by_key(x, s) ==
    IF Len(s) = 0 THEN << x >>
    ELSE IF key_le(s[Len(s)], x)
         THEN Append(s, x)
         ELSE Append(insert_by_key(x, SubSeq(s, 1, Len(s) - 1)), s[Len(s)])

RECURSIVE sort_by_key_from(_, _, _)
sort_by_key_from(us, n, acc) ==
    IF n > Len(us) THEN acc
    ELSE sort_by_key_from(us, n + 1, insert_by_key(us[n], acc))

\* mutant: the input order is trusted
sorted_not_at_all(us) == us

sorted_by_key(us) == sort_by_key_from(us, 1, <<>>)

\* int(timestamp // 3600), int((timestamp % 3600) // 60), int(timestamp % 60),
\* int((timestamp % 1) * 30)
hours_of(t) == t[1] \div (3600 * t[2])
minutes_of(t) == (t[1] % (3600 * t[2])) \div (60 * t[2])
seconds_of(t) == (t[1] % (60 * t[2])) \div t[2]
frames_of(t) == ((t[1] % t[2]) * FramesPerSecond) \div t[2]

\* int(timestamp // 60)
total_minutes_of(t) == t[1] \div (60 * t[2])

timecode(t) ==
    format_int(hours_of(t), 2, "0") \o ":" \o format_int(minutes_of(t), 2, "0") \o ":"
    \o format_int(seconds_of(t), 2, "0") \o ":" \o format_int(frames_of(t), 2, "0")

time_str(t) ==
    format_int(total_minutes_of(t), 2, "0") \o ":" \o format_int(seconds_of(t), 2, "0")

ConfidenceScale == 1000

\* int(confidence * 100)
percent(confidence) == (confidence * 100) \div ConfidenceScale

edl_entry(i, up_sot) ==
    LET timestamp == get(up_sot, "timestamp", ZERO)
        description == get(up_sot, "description", "Key moment")
        up_sot_type == get(up_sot, "type", "key_moment")
        confidence == get(up_sot, "confidence", 0)
        tc == timecode(timestamp)
    IN  << format_int(i, 3, "0") \o "  001      V     C        "
              \o tc \o " " \o tc \o " " \o tc \o " " \o tc,
           "* FROM CLIP NAME: " \o upper(up_sot_type),
           "* COMMENT: " \o description,
           "* CONFIDENCE: " \o digits(percent(confidence)) \o "%",
           "" >>

RECURSIVE edl_entries(_, _)
edl_entries(sorted_up_sots, i) ==
    IF i > Len(sorted_up_sots) THEN << >>
    ELSE edl_entry(i, sorted_up_sots[i]) \o edl_entries(sorted_up_sots, i + 1)

generate_edl_lines(ups, project_name) ==
    << "TITLE: " \o project_name, "FCM: NON-DROP FRAME", "" >>
    \o edl_entries(sorted_by_key(ups), 1)

generate_edl(ups, project_name) == join(generate_edl_lines(ups, project_name))

txt_entry(i, up_sot) ==
    LET timestamp == get(up_sot, "timestamp", ZERO)
        description == get(up_sot, "description", "Key moment")
        up_sot_type == get(up_sot, "type", "key_moment")
        confidence == get(up_sot, "confidence", 0)
    IN  << format_int(i, 2, " ") \o ". [" \o time_str(timestamp) \o "] "
              \o upper(up_sot_type),
           "    " \o description >>
        \o (IF confidence > 0
            THEN << "    Confidence: " \o digits(percent(confidence)) \o "%" >>
            ELSE << >>)
        \o << "" >>

RECURSIVE txt_entries(_, _)
txt_entries(sorted_up_sots, i) ==
    IF i > Len(sorted_up_sots) THEN << >>
    ELSE txt_entry(i, sorted_up_sots[i]) \o txt_entries(sorted_up_sots, i + 1)

generate_txt_lines(transcription, ups, project_name, now) ==
    << repeat("=", 80),
       "INTERVIEW TRANSCRIPT: " \o project_name,
       "Generated: " \o now,
       repeat("=", 80),
       "",
       "FULL TRANSCRIPTION:",
       repeat("-", 40),
       transcription,
       "",
       "" >>
    \o (IF Len(ups) > 0
        THEN << "KEY MOMENTS (UP-SOTS):", repeat("-", 40) >>
             \o txt_entries(sorted_by_key(ups), 1)
        ELSE << >>)
    \o << repeat("=", 80),
          "Generated by Retro Professional Transcribe Tool",
          repeat("=", 80) >>

generate_txt(transcription, ups, project_name, now) ==
    join(generate_txt_lines(transcription, ups, project_name, now))

is_letter(c) == c \in DOMAIN to_lower \/ c \in DOMAIN to_upper

\* str.replace(old, new) for single characters
RECURSIVE replace_char(_, _, _)
replace_char(s, old, new) ==
    IF Len(s) = 0 THEN ""
    ELSE IF Len(s) = 1 THEN (IF s = old THEN new ELSE s)
    ELSE LET h == Len(s) \div 2
         IN  replace_char(SubSeq(s, 1, h), old, new)
             \o replace_char(SubSeq(s, h + 1, Len(s)), old, new)

\* str.title(): a letter that follows no letter is upper-cased, any other
\* letter is lower-cased
RECURSIVE title_range(_, _, _)
title_range(s, lo, hi) ==
    IF lo > hi THEN ""
    ELSE IF lo = hi
         THEN IF lo > 1 /\ is_letter(Char(s, lo - 1))
              THEN lower_char(Char(s, lo))
              ELSE upper_char(Char(s, lo))
    ELSE LET mid == (lo + hi) \div 2
         IN  title_range(s, lo, mid) \o title_range(s, mid + 1, hi)

title(s) == title_range(s, 1, Len(s))

\* the type_color lookup; the glyphs of the source are written as ASCII tags
type_color(up_sot_type) ==
    CASE up_sot_type = "question" -> "(blue)"
      [] up_sot_type = "key_moment" -> "(green)"
      [] up_sot_type = "topic_transition" -> "(purple)"
      [] OTHER -> "(white)"

markdown_entry(i, up_sot) ==
    LET timestamp == get(up_sot, "timestamp", ZERO)
        description == get(up_sot, "description", "Key moment")
        up_sot_type == get(up_sot, "type", "key_moment")
        confidence == get(up_sot, "confidence", 0)
    IN  << "### " \o digits(i) \o ". [" \o time_str(timestamp) \o "] "
              \o type_color(up_sot_type) \o " "
              \o title(replace_char(up_sot_type, "_", " ")),
           "",
           "**Description:** " \o description,
           "" >>
        \o (IF confidence > 0
            THEN << "**Confidence:** " \o digits(percent(confidence)) \o "%", "" >>
            ELSE << >>)
        \o << "---", "" >>

RECURSIVE markdown_entries(_, _)
markdown_entries(sorted_up_sots, i) ==
    IF i > Len(sorted_up_sots) THEN << >>
    ELSE markdown_entry(i, sorted_up_sots[i]) \o markdown_entries(sorted_up_sots, i + 1)

generate_markdown_lines(transcription, ups, project_name, now) ==
    << "# Interview Transcript: " \o project_name,
       "",
       "**Generated:** " \o now,
       "",
       "---",
       "",
       "## Full Transcription",
       "",
       transcription,
       "",
       "---",
       "" >>
    \o (IF Len(ups) > 0
        THEN << "## Key Moments (Up-Sots)", "" >>
             \o markdown_entries(sorted_by_key(ups), 1)
        ELSE << >>)
    \o << "## Document Information",
          "",
          "- **Tool:** Retro Professional Transcribe Tool",
          "- **Format:** Professional Interview Transcript",
          "- **Export Date:** " \o now >>

generate_markdown(transcription, ups, project_name, now) ==
    join(generate_markdown_lines(transcription, ups, project_name, now))

(***************************************************************************)
(* Two renderings of one up-sot list, the second given the list in any     *)
(* order.  Each rendering runs one of the three renderers.                 *)
(***************************************************************************)
MaxUpSots == 2

RenderRequests == { "first", "second" }

\* datetime.now().strftime('%Y-%m-%d %H:%M:%S') at each rendering
now_of(r) == IF r = "first" THEN "2024-01-01 10:00:00" ELSE "2024-01-01 10:00:01"

ProjectName == "Demo"
Transcription == "Hello world."

UpSotPool ==
    { [timestamp |-> <<181, 2>>, type |-> "question",
       description |-> "Question: how does it work", confidence |-> 800],
      [timestamp |-> <<5, 1>>, type |-> "key_moment",
       description |-> "x", confidence |-> 900],
      [timestamp |-> <<5, 1>>, type |-> "topic_transition",
       description |-> "Topic change: now", confidence |-> 900],
      [type |-> "custom_kind", description |-> "no timestamp"],
      [timestamp |-> <<0, 1>>, type |-> "question",
       description |-> "Question: what makes it unique", confidence |-> 800],
      [timestamp |-> <<47999, 8>>, type |-> "key_moment",
       description |-> "Key point: just under 100 minutes", confidence |-> 700],
      [timestamp |-> <<6000, 1>>, type |-> "key_moment",
       description |-> "Key point: 100 minutes", confidence |-> 700],
      [timestamp |-> <<2879999, 8>>, type |-> "topic_transition",
       description |-> "Topic change: just under 100 hours", confidence |-> 900],
      [timestamp |-> <<360000, 1>>, type |-> "topic_transition",
       description |-> "Topic change: 100 hours", confidence |-> 900] }

Injections(n, S) ==
    { f \in [1..n -> S] : \A i, j \in 1..n : i /= j => f[i] /= f[j] }

UpSotLists == UNION { Injections(n, UpSotPool) : n \in 0..MaxUpSots }

PermutationsOf(L) ==
    { [i \in 1..Len(L) |-> L[f[i]]] : f \in Injections(Len(L), 1..Len(L)) }

DetIdle ==
    /\ text = "" /\ sentences = << >> /\ up_sots = << >>
    /\ unique_up_sots = << >> /\ detected = << >> /\ dpc = "off"

RenInit ==
    /\ DetIdle
    /\ SrvIdle
    /\ \E L \in UpSotLists : \E P \in PermutationsOf(L) :
          r_up_sots = [r \in RenderRequests |-> IF r = "first" THEN L ELSE P]
    /\ r_fmt = [r \in RenderRequests |-> "none"]
    /\ r_lines = [r \in RenderRequests |-> << >>]
    /\ r_content = [r \in RenderRequests |-> ""]

GenerateEdl(r) ==
    /\ r_fmt[r] = "none"
    /\ r_fmt' = [r_fmt EXCEPT ![r] = "edl"]
    /\ LET edl_lines == generate_edl_lines(r_up_sots[r], ProjectName)
       IN  /\ r_lines' = [r_lines EXCEPT ![r] = edl_lines]
           /\ r_content' = [r_content EXCEPT ![r] = join(edl_lines)]
    /\ UNCHANGED <<detVars, r_up_sots, srvVars>>

GenerateTxt(r) ==
    /\ r_fmt[r] = "none"
    /\ r_fmt' = [r_fmt EXCEPT ![r] = "txt"]
    /\ LET lines == generate_txt_lines(Transcription, r_up_sots[r], ProjectName, now_of(r))
       IN  /\ r_lines' = [r_lines EXCEPT ![r] = lines]
           /\ r_content' = [r_content EXCEPT ![r] = join(lines)]
    /\ UNCHANGED <<detVars, r_up_sots, srvVars>>

GenerateMarkdown(r) ==
    /\ r_fmt[r] = "none"
    /\ r_fmt' = [r_fmt EXCEPT ![r] = "md"]
    /\ LET lines == generate_markdown_lines(Transcription, r_up_sots[r], ProjectName, now_of(r))
       IN  /\ r_lines' = [r_lines EXCEPT ![r] = lines]
           /\ r_content' = [r_content EXCEPT ![r] = join(lines)]
    /\ UNCHANGED <<detVars, r_up_sots, srvVars>>

RenNext ==
    \E r \in RenderRequests : GenerateEdl(r) \/ GenerateTxt(r) \/ GenerateMarkdown(r)

SpecRender == RenInit /\ [][RenNext]_vars

(***************************************************************************)
(* The export endpoints: export_edl, export_txt, export_pdf                *)
(*                                                                         *)
(* Requests run concurrently; a step of a handler is one operation on the  *)
(* temporary directory together with the computation that leads to it.     *)
(***************************************************************************)
NumRequests == 2
MaxNames == 2

Requests == 1..NumRequests

TempDir == "/tmp"

\* the random names tempfile can draw
Names == { "tmp" \o digits(k) : k \in 1..MaxNames }

NoPath == ""
NoResult == [returncode |-> -1, stderr |-> ""]
NoResponse == [status |-> 0, error |-> "", attachment |-> NoPath, data |-> "",
               download_name |-> "", mimetype |-> ""]

ErrorResponse(status, message) ==
    [status |-> status, error |-> message, attachment |-> NoPath, data |-> "",
     download_name |-> "", mimetype |-> ""]

\* datetime.now().strftime('%Y%m%d_%H%M%S') and ('%Y-%m-%d %H:%M:%S')
Stamp == "20240101_100000"
Now == "2024-01-01 10:00:00"

\* the path NamedTemporaryFile(suffix=...) makes of a name
path_of(name, suffix) == TempDir \o "/" \o name \o suffix

\* the names whose path with this suffix does not exist: the file is opened
\* with O_EXCL, so a name in use is never handed out
free_names(suffix) == { n \in Names : path_of(n, suffix) \notin DOMAIN fs }

\* str.replace(old, new): every occurrence, left to right
RECURSIVE str_replace(_, _, _)
str_replace(s, old, new) ==
    IF Len(s) < Len(old) THEN s
    ELSE IF SubSeq(s, 1, Len(old)) = old
         THEN new \o str_replace(SubSeq(s, Len(old) + 1, Len(s)), old, new)
         ELSE Char(s, 1) \o str_replace(Tail(s), old, new)

\* what the converter makes of a markdown document
pdf_of(markdown) == "%PDF " \o markdown

\* mutant: no list is rejected
never_falsy(v) == FALSE

\* `not up_sots`
is_falsy(v) == Len(v) = 0

\* an element that is no JSON object: x.get raises AttributeError
raises(ups) == \E k \in 1..Len(ups) : "not_an_object" \in DOMAIN ups[k]
AttributeError == "'str' object has no attribute 'get'"
FileExistsError == "[Errno 17] No usable temporary file name found"

write_file(path, data, r) ==
    /\ fs' = [ p \in DOMAIN fs \cup {path} |-> IF p = path THEN data ELSE fs[p] ]
    /\ written_by' =
          [ p \in DOMAIN fs \cup {path} |-> IF p = path THEN r ELSE written_by[p] ]

unlink_file(path) ==
    /\ fs' = [ p \in DOMAIN fs \ {path} |-> fs[p] ]
    /\ written_by' = [ p \in DOMAIN fs \ {path} |-> written_by[p] ]

respond(r, resp) ==
    /\ response' = [response EXCEPT ![r] = resp]
    /\ pc' = [pc EXCEPT ![r] = "done"]

\* send_file(path, as_attachment=True, download_name=..., mimetype=...)
send_file(r, path, download_name, mimetype, failure) ==
    IF path \in DOMAIN fs
    THEN respond(r, [status |-> 200, error |-> "", attachment |-> path,
                     data |-> fs[path], download_name |-> download_name,
                     mimetype |-> mimetype])
    ELSE respond(r, ErrorResponse(500, failure \o "[Errno 2] No such file or directory"))

\* export_edl up to the end of the `with` block
ExportEdlStart(r) ==
    /\ req[r].kind = "edl" /\ pc[r] = "start"
    /\ LET data == req[r].body
           ups == get(data, "up_sots", << >>)
           project_name == get(data, "project_name", "Interview")
       IN  IF is_falsy(ups)
           THEN /\ respond(r, ErrorResponse(400, "No up-sots provided"))
                /\ UNCHANGED <<content, temp_file_path, log, fsVars>>
           ELSE IF raises(ups)
           THEN /\ respond(r, ErrorResponse(500, "EDL export failed: " \o AttributeError))
                /\ log' = [log EXCEPT ![r] = Append(@, "generate")]
                /\ UNCHANGED <<content, temp_file_path, fsVars>>
           ELSE IF free_names(".edl") = {}
           THEN /\ respond(r, ErrorResponse(500, "EDL export failed: " \o FileExistsError))
                /\ content' = [content EXCEPT ![r] = generate_edl(ups, project_name)]
                /\ log' = [log EXCEPT ![r] = Append(@, "generate")]
                /\ UNCHANGED <<temp_file_path, fsVars>>
           ELSE \E name \in free_names(".edl") :
                /\ content' = [content EXCEPT ![r] = generate_edl(ups, project_name)]
                /\ temp_file_path' = [temp_file_path EXCEPT ![r] = path_of(name, ".edl")]
                /\ write_file(path_of(name, ".edl"), generate_edl(ups, project_name), r)
                /\ log' = [log EXCEPT ![r] = @ \o <<"generate", "write">>]
                /\ pc' = [pc EXCEPT ![r] = "send"]
                /\ UNCHANGED response
    /\ UNCHANGED <<detVars, renVars, req, pdf_file_path, result>>

ExportEdlSend(r) ==
    /\ req[r].kind = "edl" /\ pc[r] = "send"
    /\ send_file(r, temp_file_path[r],
                 get(req[r].body, "project_name", "Interview") \o "_upsots_" \o Stamp \o ".edl",
                 "text/plain", "EDL export failed: ")
    /\ log' = [log EXCEPT ![r] = Append(@, "send")]
    /\ UNCHANGED <<detVars, renVars, req, content, temp_file_path, pdf_file_path,
                   result, fsVars>>

\* export_txt up to the end of the `with` block
ExportTxtStart(r) ==
    /\ req[r].kind = "txt" /\ pc[r] = "start"
    /\ LET data == req[r].body
           transcription == get(data, "transcription", "")
           ups == get(data, "up_sots", << >>)
           project_name == get(data, "project_name", "Interview")
           txt_content == generate_txt(transcription, ups, project_name, Now)
       IN  IF free_names(".txt") = {}
           THEN /\ respond(r, ErrorResponse(500, "TXT export failed: " \o FileExistsError))
                /\ content' = [content EXCEPT ![r] = txt_content]
                /\ log' = [log EXCEPT ![r] = Append(@, "generate")]
                /\ UNCHANGED <<temp_file_path, fsVars>>
           ELSE \E name \in free_names(".txt") :
                /\ content' = [content EXCEPT ![r] = txt_content]
                /\ temp_file_path' = [temp_file_path EXCEPT ![r] = path_of(name, ".txt")]
                /\ write_file(path_of(name, ".txt"), txt_content, r)
                /\ log' = [log EXCEPT ![r] = @ \o <<"generate", "write">>]
                /\ pc' = [pc EXCEPT ![r] = "send"]
                /\ UNCHANGED response
    /\ UNCHANGED <<detVars, renVars, req, pdf_file_path, result>>

ExportTxtSend(r) ==
    /\ req[r].kind = "txt" /\ pc[r] = "send"
    /\ send_file(r, temp_file_path[r],
                 get(req[r].body, "project_name", "Interview") \o "_transcript_" \o Stamp \o ".txt",
                 "text/plain", "TXT export failed: ")
    /\ log' = [log EXCEPT ![r] = Append(@, "send")]
    /\ UNCHANGED <<detVars, renVars, req, content, temp_file_path, pdf_file_path,
                   result, fsVars>>

\* export_pdf up to pdf_file_path = md_file_path.replace('.md', '.pdf')
ExportPdfStart(r) ==
    /\ req[r].kind = "pdf" /\ pc[r] = "start"
    /\ LET data == req[r].body
           transcription == get(data, "transcription", "")
           ups == get(data, "up_sots", << >>)
           project_name == get(data, "project_name", "Interview")
           md_content == generate_markdown(transcription, ups, project_name, Now)
       IN  IF free_names(".md") = {}
           THEN /\ respond(r, ErrorResponse(500, "PDF export failed: " \o FileExistsError))
                /\ content' = [content EXCEPT ![r] = md_content]
                /\ log' = [log EXCEPT ![r] = Append(@, "generate")]
                /\ UNCHANGED <<temp_file_path, pdf_file_path, fsVars>>
           ELSE \E name \in free_names(".md") :
                /\ content' = [content EXCEPT ![r] = md_content]
                /\ temp_file_path' = [temp_file_path EXCEPT ![r] = path_of(name, ".md")]
                /\ pdf_file_path' = [pdf_file_path EXCEPT ![r] =
                      str_replace(path_of(name, ".md"), ".md", ".pdf")]
                /\ write_file(path_of(name, ".md"), md_content, r)
                /\ log' = [log EXCEPT ![r] = @ \o <<"generate", "write_md">>]
                /\ pc' = [pc EXCEPT ![r] = "convert"]
                /\ UNCHANGED response
    /\ UNCHANGED <<detVars, renVars, req, result>>

\* mutant: the markdown file is cleaned up when the converter fails, too
ExportPdfConvertCleaningUp(r) ==
    /\ req[r].kind = "pdf" /\ pc[r] = "convert"
    /\ log' = [log EXCEPT ![r] = Append(@, "convert")]
    /\ \/ /\ result' = [result EXCEPT ![r] = [returncode |-> 0, stderr |-> ""]]
          /\ write_file(pdf_file_path[r], pdf_of(fs[temp_file_path[r]]), r)
          /\ pc' = [pc EXCEPT ![r] = "unlink"]
          /\ UNCHANGED response
       \/ /\ result' = [result EXCEPT ![r] = [returncode |-> 1, stderr |-> "cannot convert"]]
          /\ respond(r, ErrorResponse(500,
                "PDF export failed: PDF conversion failed: " \o "cannot convert"))
          /\ unlink_file(temp_file_path[r])
    /\ UNCHANGED <<detVars, renVars, req, content, temp_file_path, pdf_file_path>>

\* subprocess.run(['manus-md-to-pdf', md_file_path, pdf_file_path]) and the
\* test of its exit status
ExportPdfConvert(r) ==
    /\ req[r].kind = "pdf" /\ pc[r] = "convert"
    /\ log' = [log EXCEPT ![r] = Append(@, "convert")]
    /\ \/ /\ result' = [result EXCEPT ![r] = [returncode |-> 0, stderr |-> ""]]
          /\ write_file(pdf_file_path[r], pdf_of(fs[temp_file_path[r]]), r)
          /\ pc' = [pc EXCEPT ![r] = "unlink"]
          /\ UNCHANGED response
       \/ /\ result' = [result EXCEPT ![r] = [returncode |-> 1, stderr |-> "cannot convert"]]
          /\ respond(r, ErrorResponse(500,
                "PDF export failed: PDF conversion failed: " \o "cannot convert"))
          /\ UNCHANGED fsVars
    /\ UNCHANGED <<detVars, renVars, req, content, temp_file_path, pdf_file_path>>

\* os.unlink(md_file_path)
ExportPdfUnlink(r) ==
    /\ req[r].kind = "pdf" /\ pc[r] = "unlink"
    /\ unlink_file(temp_file_path[r])
    /\ log' = [log EXCEPT ![r] = Append(@, "unlink_md")]
    /\ pc' = [pc EXCEPT ![r] = "send"]
    /\ UNCHANGED <<detVars, renVars, req, content, temp_file_path, pdf_file_path,
                   result, response>>

ExportPdfSend(r) ==
    /\ req[r].kind = "pdf" /\ pc[r] = "send"
    /\ send_file(r, pdf_file_path[r],
                 get(req[r].body, "project_name", "Interview") \o "_transcript_" \o Stamp \o ".pdf",
                 "application/pdf", "PDF export failed: ")
    /\ log' = [log EXCEPT ![r] = Append(@, "send_pdf")]
    /\ UNCHANGED <<detVars, renVars, req, content, temp_file_path, pdf_file_path,
                   result, fsVars>>

OneUpSot ==
    << [timestamp |-> <<5, 1>>, type |-> "key_moment",
        description |-> "x", confidence |-> 900] >>

\* the JSON bodies a client sends; every client names its own project
Bodies(r) ==
    LET base == [project_name |-> "Project" \o digits(r), transcription |-> "Hello world."]
    IN  { [kind |-> "edl", body |-> base],
          [kind |-> "edl", body |-> base @@ [up_sots |-> << >>]],
          [kind |-> "edl", body |-> base @@ [up_sots |-> OneUpSot]],
          [kind |-> "edl", body |-> base @@ [up_sots |-> << [not_an_object |-> "x"] >>]],
          [kind |-> "txt", body |-> base @@ [up_sots |-> OneUpSot]],
          [kind |-> "pdf", body |-> base @@ [up_sots |-> OneUpSot]] }

SrvStart ==
    /\ pc = [r \in Requests |-> "start"]
    /\ content = [r \in Requests |-> ""]
    /\ temp_file_path = [r \in Requests |-> NoPath]
    /\ pdf_file_path = [r \in Requests |-> NoPath]
    /\ result = [r \in Requests |-> NoResult]
    /\ response = [r \in Requests |-> NoResponse]
    /\ log = [r \in Requests |-> << >>]
    /\ fs = << >>
    /\ written_by = << >>

ExpInit ==
    /\ DetIdle
    /\ RenIdle
    /\ req \in { q \in [Requests -> UNION { Bodies(r) : r \in Requests }] :
                   \A r \in Requests : q[r] \in Bodies(r) }
    /\ SrvStart

ExpNext ==
    \E r \in Requests :
        \/ ExportEdlStart(r) \/ ExportEdlSend(r)
        \/ ExportTxtStart(r) \/ ExportTxtSend(r)
        \/ ExportPdfStart(r) \/ ExportPdfConvert(r) \/ ExportPdfUnlink(r) \/ ExportPdfSend(r)

SpecExport == ExpInit /\ [][ExpNext]_vars

(***************************************************************************)
(* The transcription endpoint: transcribe_audio                            *)
(***************************************************************************)
\* transcription_text, the simulated transcription
DemoTranscription ==
    "\n            Welcome to today's interview. I'm here with John Smith, CEO of TechCorp, to discuss the company's innovative approach to artificial intelligence and machine learning. \n\n            John, thank you for joining us today. Can you tell us about your background and how you got started in the tech industry?\n\n            Well, thank you for having me. I've been in the technology sector for over fifteen years now. I started as a software engineer right out of college, working on database systems. What really drew me to AI was seeing how machine learning could transform the way we process and understand data.\n\n            That's fascinating. Your company has been making headlines recently with your new AI platform. Can you walk us through what makes it unique?\n\n            Absolutely. Our platform focuses on three key areas: natural language processing, computer vision, and predictive analytics. What sets us apart is our emphasis on ethical AI development and transparency. We believe that AI should be accessible and understandable to everyone, not just technical experts.\n\n            Speaking of ethics, there's been a lot of discussion about responsible AI development. How does TechCorp approach this challenge?\n\n            Ethics is at the core of everything we do. We have a dedicated ethics board that reviews all our AI projects. We also prioritize data privacy and ensure that our algorithms are free from bias. It's not just about building powerful AI; it's about building AI that serves humanity in a positive way.\n\n            Looking ahead, what do you see as the biggest opportunities and challenges in the AI space?\n\n            The opportunities are enormous. AI has the potential to solve some of our most pressing global challenges, from climate change to healthcare. However, we also face significant challenges around regulation, public trust, and ensuring that the benefits of AI are distributed equitably across society.\n\n            That's a great perspective. Before we wrap up, what advice would you give to young entrepreneurs looking to enter the AI space?\n\n            My advice would be to focus on solving real problems. Don't build AI for the sake of AI. Identify genuine pain points and think about how AI can provide meaningful solutions. Also, never underestimate the importance of building a strong, diverse team.\n\n            John, thank you so much for your time and insights today. This has been incredibly valuable.\n\n            Thank you for having me. It's been a pleasure.\n            "

\* up_sots = detect_up_sots(transcription_text)
DemoUpSots == detect_up_sots(DemoTranscription)

\* transcription_text.strip()
DemoStripped == strip(DemoTranscription)

\* request.files of the requests a client sends
Uploads ==
    { [kind |-> "transcribe", files |-> << >>],
      [kind |-> "transcribe", files |-> [audio |-> [filename |-> "", data |-> ""]]],
      [kind |-> "transcribe",
       files |-> [audio |-> [filename |-> "take.webm", data |-> "RIFF"]]] }

OSError == "[Errno 28] No space left on device"
RuntimeError == "transcription unavailable"
TypeError == "Object is not JSON serializable"

Failure(r, message) == respond(r, ErrorResponse(500, "Transcription failed: " \o message))

\* the two checks of the upload and the `with` block that saves it
TranscribeStart(r) ==
    /\ req[r].kind = "transcribe" /\ pc[r] = "start"
    /\ IF "audio" \notin DOMAIN req[r].files
       THEN /\ respond(r, ErrorResponse(400, "No audio file provided"))
            /\ UNCHANGED <<temp_file_path, log, fsVars>>
       ELSE IF req[r].files.audio.filename = ""
       THEN /\ respond(r, ErrorResponse(400, "No file selected"))
            /\ UNCHANGED <<temp_file_path, log, fsVars>>
       ELSE IF free_names(".webm") = {}
       THEN /\ Failure(r, FileExistsError)
            /\ UNCHANGED <<temp_file_path, log, fsVars>>
       ELSE \E name \in free_names(".webm") :
            \* audio_file.save(temp_file.name) writes the upload ...
            \/ /\ write_file(path_of(name, ".webm"), req[r].files.audio.data, r)
               /\ temp_file_path' = [temp_file_path EXCEPT ![r] = path_of(name, ".webm")]
               /\ log' = [log EXCEPT ![r] = @ \o <<"create", "save">>]
               /\ pc' = [pc EXCEPT ![r] = "detect"]
               /\ UNCHANGED response
            \* ... or raises, outside the inner try: the created file stays
            \/ /\ write_file(path_of(name, ".webm"), "", r)
               /\ log' = [log EXCEPT ![r] = @ \o <<"create", "save_failed">>]
               /\ Failure(r, OSError)
               /\ UNCHANGED temp_file_path
    /\ UNCHANGED <<detVars, renVars, req, content, pdf_file_path, result>>

\* the simulated transcription and detect_up_sots(transcription_text)
TranscribeDetect(r) ==
    /\ req[r].kind = "transcribe" /\ pc[r] = "detect"
    /\ \/ /\ content' = [content EXCEPT ![r] = DemoTranscription]
          /\ log' = [log EXCEPT ![r] = Append(@, "detect")]
          /\ pc' = [pc EXCEPT ![r] = "unlink"]
          /\ UNCHANGED result
       \/ /\ result' = [result EXCEPT ![r] = [returncode |-> 1, stderr |-> RuntimeError]]
          /\ log' = [log EXCEPT ![r] = Append(@, "detect_failed")]
          /\ pc' = [pc EXCEPT ![r] = "except"]
          /\ UNCHANGED content
    /\ UNCHANGED <<detVars, renVars, req, temp_file_path, pdf_file_path, response, fsVars>>

\* os.unlink(temp_file_path) of the inner try
TranscribeUnlink(r) ==
    /\ req[r].kind = "transcribe" /\ pc[r] = "unlink"
    /\ unlink_file(temp_file_path[r])
    /\ log' = [log EXCEPT ![r] = Append(@, "unlink")]
    /\ pc' = [pc EXCEPT ![r] = "respond"]
    /\ UNCHANGED <<detVars, renVars, req, content, temp_file_path, pdf_file_path,
                   result, response>>

\* return jsonify({...})
TranscribeRespond(r) ==
    /\ req[r].kind = "transcribe" /\ pc[r] = "respond"
    /\ \/ /\ respond(r, [status |-> 200, error |-> "", success |-> TRUE,
                         transcription |-> DemoStripped,
                         up_sots |-> DemoUpSots,
                         timestamp |-> Now])
          /\ log' = [log EXCEPT ![r] = Append(@, "respond")]
          /\ UNCHANGED result
       \/ /\ result' = [result EXCEPT ![r] = [returncode |-> 1, stderr |-> TypeError]]
          /\ log' = [log EXCEPT ![r] = Append(@, "respond_failed")]
          /\ pc' = [pc EXCEPT ![r] = "except"]
          /\ UNCHANGED response
    /\ UNCHANGED <<detVars, renVars, req, content, temp_file_path, pdf_file_path, fsVars>>

\* the inner except clause and, after its raise, the outer one
TranscribeExcept(r) ==
    /\ req[r].kind = "transcribe" /\ pc[r] = "except"
    /\ IF temp_file_path[r] \in DOMAIN fs
       THEN /\ unlink_file(temp_file_path[r])
            /\ log' = [log EXCEPT ![r] = Append(@, "cleanup")]
       ELSE UNCHANGED <<log, fsVars>>
    /\ Failure(r, result[r].stderr)
    /\ UNCHANGED <<detVars, renVars, req, content, temp_file_path, pdf_file_path, result>>

TrInit ==
    /\ DetIdle
    /\ RenIdle
    /\ req \in [Requests -> Uploads]
    /\ SrvStart

TrNext ==
    \E r \in Requests :
        \/ TranscribeStart(r) \/ TranscribeDetect(r) \/ TranscribeUnlink(r)
        \/ TranscribeRespond(r) \/ TranscribeExcept(r)

SpecTranscribe == TrInit /\ [][TrNext]_vars

(***************************************************************************)
(* Claims about detect_up_sots (checked under SpecDetect)                  *)
(***************************************************************************)
Range(s) == { s[k] : k \in 1..Len(s) }

\* the rule priority order: question, key_moment, topic_transition
Rank(ty) == CASE ty = "question" -> 1 [] ty = "key_moment" -> 2 [] OTHER -> 3

FirstRule(s) ==
    IF is_question(s) THEN "question"
    ELSE IF is_key_moment(s) THEN "key_moment"
    ELSE IF is_topic_transition(s) THEN "topic_transition"
    ELSE "none"

RuleConfidence(ty) ==
    CASE ty = "question" -> 800 [] ty = "key_moment" -> 700
      [] ty = "topic_transition" -> 900 [] OTHER -> 0

\* C1: for every sentence unit of at least 10 characters at split index i, the
\* returned list holds an up-sot with timestamp 3*i iff some rule matches the
\* unit; there is then exactly one, its type is the first matching rule in the
\* order question, key_moment, topic_transition, and its confidence is 0.8, 0.7
\* or 0.9 accordingly.
C1_FirstMatchWins ==
    dpc = "done" =>
        \A n \in 1..Len(sentences) :
            LET s == normalise(sentences[n])
                hits == { k \in 1..Len(detected) : detected[k].timestamp = 3 * (n - 1) }
            IN  Len(s) >= 10 =>
                /\ (hits /= {}) <=> (FirstRule(s) /= "none")
                /\ Cardinality(hits) <= 1
                /\ \A k \in hits :
                      /\ detected[k].type = FirstRule(s)
                      /\ detected[k].confidence = RuleConfidence(FirstRule(s))

\* a unit on which all three rules match has been classified as a question
C1_Witness ==
    /\ dpc = "done"
    /\ \E n \in 1..Len(sentences) :
          LET s == normalise(sentences[n])
          IN  /\ Len(s) >= 10
              /\ is_question(s) /\ is_key_moment(s) /\ is_topic_transition(s)
              /\ \E k \in 1..Len(detected) :
                    /\ detected[k].timestamp = 3 * (n - 1)
                    /\ detected[k].type = "question"
    /\ \E n \in 1..Len(sentences) :
          LET s == normalise(sentences[n])
          IN  Len(s) >= 10 /\ FirstRule(s) = "none"

\* C2: the returned list is strictly ascending by timestamp.
C2_StrictlyAscending ==
    dpc = "done" =>
        \A j, k \in 1..Len(detected) :
            j < k => detected[j].timestamp < detected[k].timestamp

\* two or more up-sots are returned and deduplication has dropped one
C2_Witness ==
    /\ dpc = "done"
    /\ Len(detected) >= 2
    /\ Len(up_sots) > Len(detected)

\* the number of maximal runs of terminators in s
RunCount(s) ==
    Cardinality({ k \in 1..Len(s) :
        /\ Char(s, k) \in {".", "!", "?"}
        /\ (k = Len(s) \/ Char(s, k + 1) \notin {".", "!", "?"}) })

DescriptionsOf(s) ==
    { "Question: " \o s, "Key point: " \o s, "Topic change: " \o s }

\* C3: every up-sot's timestamp is 3 times the index of its unit in the full
\* split list (one unit more than there are runs of terminators, short units
\* counted), and no unit shorter than 10 characters yields an up-sot.
C3_TimestampIsFullSplitIndex ==
    dpc \in {"dedup", "sort", "done"} =>
        /\ Len(sentences) = RunCount(text) + 1
        /\ \A u \in Range(up_sots) \cup Range(detected) :
              \E n \in 1..Len(sentences) :
                  LET s == normalise(sentences[n])
                  IN  /\ u.timestamp = 3 * (n - 1)
                      /\ Len(s) >= 10
                      /\ (Len(s) <= 100 => u.description \in DescriptionsOf(s))
        /\ \A n \in 1..Len(sentences) :
              Len(normalise(sentences[n])) < 10 =>
                  \A u \in Range(up_sots) \cup Range(detected) :
                      u.timestamp /= 3 * (n - 1)

\* an up-sot is returned for a unit that follows a discarded short unit
C3_Witness ==
    /\ dpc = "done"
    /\ \E k \in 1..Len(detected) : \E n \in 2..Len(sentences) :
          /\ detected[k].timestamp = 3 * (n - 1)
          /\ \E m \in 1..(n - 1) : Len(normalise(sentences[m])) < 10

\* the up-sots of `all` that deduplication dropped for a timestamp held by `kept`
Outranked(all, kept) ==
    { <<d, k>> \in Range(all) \X Range(kept) :
        /\ d \notin Range(kept)
        /\ d.timestamp = k.timestamp
        /\ Rank(d.type) < Rank(k.type) }

\* C9 as stated: there is a transcript for which the up-sot kept for some
\* timestamp has a lower-priority type than one dropped for that timestamp.
C9_DedupCanDiscardHigherPriority ==
    dpc = "split" =>
        \E t \in Transcripts :
            Outranked(scan(re_split(t)), detect_up_sots(t)) /= {}

\* C9, amended: every up-sot dropped by deduplication has a strictly lower
\* priority than the up-sot kept for its timestamp.
C9_DedupKeepsHighestPriority ==
    dpc = "done" =>
        \A d \in Range(up_sots) : \A k \in Range(detected) :
            (d \notin Range(detected) /\ d.timestamp = k.timestamp)
                => Rank(k.type) < Rank(d.type)

\* deduplication has dropped an up-sot
C9_Witness ==
    /\ dpc = "done"
    /\ \E d \in Range(up_sots) : d \notin Range(detected)


(***************************************************************************)
(* Claims about the renderers (checked under SpecRender)                   *)
(***************************************************************************)
\* the lines of the key-moment section: what lies between the transcription
\* block and the footer
TxtSection(lines) == SubSeq(lines, 11, Len(lines) - 3)
MarkdownSection(lines) == SubSeq(lines, 13, Len(lines) - 5)

SameOutput ==
    /\ r_fmt["first"] = "edl" => r_content["first"] = r_content["second"]
    /\ r_fmt["first"] = "txt" =>
          TxtSection(r_lines["first"]) = TxtSection(r_lines["second"])
    /\ r_fmt["first"] = "md" =>
          MarkdownSection(r_lines["first"]) = MarkdownSection(r_lines["second"])

BothRendered == r_fmt["first"] /= "none" /\ r_fmt["first"] = r_fmt["second"]

KeyOf(u) == IF "timestamp" \in DOMAIN u THEN u["timestamp"] ELSE <<0, 1>>

DistinctTimestamps(L) ==
    \A i, j \in 1..Len(L) :
        i /= j => KeyOf(L[i])[1] * KeyOf(L[j])[2] /= KeyOf(L[j])[1] * KeyOf(L[i])[2]

\* C4 as stated: every permutation of every up-sot list, lists with equal
\* timestamps included, renders to the identical EDL document and to identical
\* key-moment sections of the text and markdown documents.
C4_OrderIndependent == BothRendered => SameOutput

\* C4, amended: the same for every list whose timestamps (an absent one counts
\* as 0) are pairwise distinct.
C4_OrderIndependentDistinct ==
    (BothRendered /\ DistinctTimestamps(r_up_sots["first"])) => SameOutput

\* the same renderer has run on a list of distinct timestamps in two orders
C4_Witness ==
    /\ BothRendered
    /\ r_fmt["first"] = "edl"
    /\ DistinctTimestamps(r_up_sots["first"])
    /\ r_up_sots["first"] /= r_up_sots["second"]

TwoDigits(n) == Char("0123456789", (n \div 10) + 1) \o Char("0123456789", (n % 10) + 1)

\* floor(t / m) and floor((t mod m) / q) for t = <<n, d>>
FloorDiv(t, m) == t[1] \div (m * t[2])
FloorModDiv(t, m, q) == (t[1] % (m * t[2])) \div (q * t[2])

ExpectedSMPTE(t) ==
    TwoDigits(FloorDiv(t, 3600)) \o ":" \o TwoDigits(FloorModDiv(t, 3600, 60)) \o ":"
    \o TwoDigits(FloorModDiv(t, 60, 1)) \o ":"
    \o TwoDigits(((t[1] % t[2]) * 30) \div t[2])

ExpectedMinSec(t) ==
    TwoDigits(FloorDiv(t, 60)) \o ":" \o TwoDigits(FloorModDiv(t, 60, 1))

IsDigit(c) == \E k \in 1..10 : Char("0123456789", k) = c

\* two digits per field, fields separated by colons
FixedWidth(s, fields) ==
    /\ Len(s) = 3 * fields - 1
    /\ \A k \in 1..Len(s) : IF k % 3 = 0 THEN Char(s, k) = ":" ELSE IsDigit(Char(s, k))

\* what follows the last space of a line
LastField(line) ==
    LET sp == { k \in 1..Len(line) : Char(line, k) = " " }
    IN  SubSeq(line, (IF sp = {} THEN 0 ELSE SetMax(sp)) + 1, Len(line))

\* what stands between the first "[" and the first "]" of a line
Bracketed(line) ==
    LET op == { k \in 1..Len(line) : Char(line, k) = "[" }
        cl == { k \in 1..Len(line) : Char(line, k) = "]" }
    IN  SubSeq(line, SetMin(op) + 1, SetMin(cl) - 1)

\* the timecodes of the edit lines of an EDL document, all four of each line
EdlTimecodes(lines) ==
    { LastField(lines[k]) : k \in { j \in 4..Len(lines) : (j - 4) % 5 = 0 } }

EdlLinesUniform(lines) ==
    \A k \in { j \in 4..Len(lines) : (j - 4) % 5 = 0 } :
        LET tc == LastField(lines[k])
        IN  SubSeq(lines[k], 30, Len(lines[k])) = tc \o " " \o tc \o " " \o tc \o " " \o tc

\* the time strings of the entry lines of a text or markdown document
TimeStrings(section) ==
    { Bracketed(section[k]) :
        k \in { j \in 1..Len(section) :
                  \E m \in 1..Len(section[j]) : Char(section[j], m) = "[" } }

TimestampsOf(L) == { KeyOf(L[k]) : k \in 1..Len(L) }

Below(t, limit) == t[1] < limit * t[2]

HalfPast90 == <<181, 2>>

\* C5 as stated: for every timestamp t >= 0 the EDL timecode is HH:MM:SS:FF and
\* the text and markdown time string is MM:SS, every field exactly two digits.
C5_FixedWidthForAll ==
    \A r \in RenderRequests :
        /\ r_fmt[r] = "edl" =>
              \A tc \in EdlTimecodes(r_lines[r]) : FixedWidth(tc, 4)
        /\ r_fmt[r] = "txt" =>
              \A ts \in TimeStrings(TxtSection(r_lines[r])) : FixedWidth(ts, 2)
        /\ r_fmt[r] = "md" =>
              \A ts \in TimeStrings(MarkdownSection(r_lines[r])) : FixedWidth(ts, 2)

\* C5, amended: for every timestamp 0 <= t < 360000 the EDL timecode is the
\* fixed-width HH:MM:SS:FF of floor(t/3600), floor((t mod 3600)/60),
\* floor(t mod 60), floor(frac(t)*30), and for every 0 <= t < 6000 the text and
\* markdown time string is the fixed-width MM:SS of floor(t/60), floor(t mod 60);
\* for t = 90.5 they are 00:01:30:15 and 01:30.
C5_FixedWidthInRange ==
    \A r \in RenderRequests :
        LET ts == TimestampsOf(r_up_sots[r])
        IN  /\ (r_fmt[r] = "edl" /\ \A t \in ts : Below(t, 360000)) =>
                  /\ EdlTimecodes(r_lines[r]) = { ExpectedSMPTE(t) : t \in ts }
                  /\ \A tc \in EdlTimecodes(r_lines[r]) : FixedWidth(tc, 4)
                  /\ EdlLinesUniform(r_lines[r])
                  /\ (ts = { HalfPast90 } => EdlTimecodes(r_lines[r]) = { "00:01:30:15" })
            /\ (r_fmt[r] = "txt" /\ \A t \in ts : Below(t, 6000)) =>
                  /\ TimeStrings(TxtSection(r_lines[r])) = { ExpectedMinSec(t) : t \in ts }
                  /\ \A x \in TimeStrings(TxtSection(r_lines[r])) : FixedWidth(x, 2)
                  /\ (ts = { HalfPast90 } =>
                         TimeStrings(TxtSection(r_lines[r])) = { "01:30" })
            /\ (r_fmt[r] = "md" /\ \A t \in ts : Below(t, 6000)) =>
                  /\ TimeStrings(MarkdownSection(r_lines[r])) = { ExpectedMinSec(t) : t \in ts }
                  /\ \A x \in TimeStrings(MarkdownSection(r_lines[r])) : FixedWidth(x, 2)
                  /\ (ts = { HalfPast90 } =>
                         TimeStrings(MarkdownSection(r_lines[r])) = { "01:30" })

\* the up-sot at 90.5 seconds has been rendered to an EDL and to a text document
C5_Witness ==
    /\ r_fmt["first"] = "edl" /\ r_fmt["second"] = "txt"
    /\ TimestampsOf(r_up_sots["first"]) = { HalfPast90 }
    /\ EdlTimecodes(r_lines["first"]) = { "00:01:30:15" }
    /\ TimeStrings(TxtSection(r_lines["second"])) = { "01:30" }

(***************************************************************************)
(* Claims about the export and transcription endpoints                     *)
(***************************************************************************)
UpSotsOf(r) == get(req[r].body, "up_sots", << >>)

FilesOf(r) == { p \in DOMAIN fs : written_by[p] = r }

Done(r) == pc[r] = "done"

\* C6: an export_edl request whose up_sots list is empty or absent ends in
\* the validation error and never in a document: generate_edl is not called,
\* no temporary file is created and no attachment is returned; a request
\* with a non-empty list never ends in that validation error.
C6_EmptyListIsValidationError ==
    \A r \in Requests :
        req[r].kind = "edl" =>
            /\ Len(UpSotsOf(r)) = 0 =>
                  /\ pc[r] \in {"start", "done"}
                  /\ log[r] = << >>
                  /\ content[r] = ""
                  /\ temp_file_path[r] = NoPath
                  /\ FilesOf(r) = {}
                  /\ Done(r) => response[r] = ErrorResponse(400, "No up-sots provided")
            /\ Len(UpSotsOf(r)) > 0 =>
                  /\ response[r].status /= 400
                  /\ response[r].error /= "No up-sots provided"

C6_Witness ==
    /\ \E r \in Requests :
          /\ req[r].kind = "edl" /\ Done(r)
          /\ "up_sots" \notin DOMAIN req[r].body
          /\ response[r].status = 400
    /\ \E r \in Requests :
          /\ req[r].kind = "edl" /\ Done(r)
          /\ Len(UpSotsOf(r)) > 0
          /\ response[r].status = 200
          /\ response[r].attachment = temp_file_path[r]
          /\ response[r].data = content[r]

PdfSteps == <<"generate", "write_md", "convert", "unlink_md", "send_pdf">>

IsPrefix(s, t) == Len(s) <= Len(t) /\ s = SubSeq(t, 1, Len(s))

ConverterFailed(r) == req[r].kind = "pdf" /\ Done(r) /\ result[r].returncode > 0

ConverterSucceeded(r) == req[r].kind = "pdf" /\ Done(r) /\ result[r].returncode = 0

\* C7: export_pdf writes the markdown file, then runs the converter; on exit
\* status 0 the markdown file is deleted before the response and the response
\* is the PDF attachment; on a non-zero status the response is an error
\* carrying the converter's stderr, no PDF attachment is returned and the
\* markdown file still exists when the request ends.
C7_PdfStepsInOrder ==
    \A r \in Requests :
        req[r].kind = "pdf" =>
            /\ IsPrefix(log[r], PdfSteps)
            /\ ConverterSucceeded(r) =>
                  /\ log[r] = PdfSteps
                  /\ response[r].status = 200
                  /\ response[r].attachment = pdf_file_path[r]
                  /\ response[r].mimetype = "application/pdf"
            /\ ConverterFailed(r) =>
                  /\ log[r] = SubSeq(PdfSteps, 1, 3)
                  /\ response[r].status = 500
                  /\ contains(result[r].stderr, response[r].error)
                  /\ response[r].attachment = NoPath
                  /\ temp_file_path[r] \in FilesOf(r)
                  /\ fs[temp_file_path[r]] = content[r]

C7_Witness ==
    /\ \E r \in Requests : ConverterSucceeded(r) /\ response[r].status = 200
    /\ \E r \in Requests :
          /\ ConverterFailed(r)
          /\ Len(result[r].stderr) > 0
          /\ temp_file_path[r] \in DOMAIN fs

\* the file a request is going to return, and the document it rendered for it
ReturnPath(r) == IF req[r].kind = "pdf" THEN pdf_file_path[r] ELSE temp_file_path[r]

OwnDocument(r) == IF req[r].kind = "pdf" THEN pdf_of(content[r]) ELSE content[r]

\* C8: for every interleaving of concurrent export requests each request's
\* temporary files are independent: the file a request converts from, deletes
\* or is going to return is one it created itself and still holds what it
\* wrote, and the attachment it returns is its own document.
C8_TempFilesIndependent ==
    \A r \in Requests :
        /\ pc[r] \in {"convert", "unlink"} =>
              /\ temp_file_path[r] \in FilesOf(r)
              /\ fs[temp_file_path[r]] = content[r]
        /\ pc[r] = "send" =>
              /\ ReturnPath(r) \in FilesOf(r)
              /\ fs[ReturnPath(r)] = OwnDocument(r)
        /\ (Done(r) /\ response[r].status = 200) => response[r].data = OwnDocument(r)

\* C10: every transcribe_audio request that creates a temporary audio file has
\* deleted it by the time it responds, on every path, and a request rejected
\* for a missing or unnamed audio file creates none.
C10_TempFileDeletedOnEveryPath ==
    \A r \in Requests :
        (req[r].kind = "transcribe" /\ Done(r)) =>
            /\ FilesOf(r) = {}
            /\ response[r].status = 400 => log[r] = << >>

====
